---------------------------- MODULE Spec2Model ----------------------------
(***************************************************************************)
(* A model of the arXiv MCP server: the rate-limited client                *)
(* (arxiv_client.py) and the search_papers / get_paper_data /              *)
(* get_full_paper_text tools with the date-filter construction             *)
(* (server.py).                                                            *)
(*                                                                         *)
(* Strings are sequences of one-character strings, so that formatting,     *)
(* parsing and lexicographic comparison are computed and not assumed.      *)
(* Python's None is the one-element sequence NONE, which no string equals. *)
(*                                                                         *)
(* Time is discrete: one tick of "now" is one second.  Code between two    *)
(* awaits runs as one step (asyncio is cooperative) and takes no time;     *)
(* time passes in Tick and Elapse.  The clock datetime.now() reads and the *)
(* clock asyncio.sleep() waits on are taken to be the same monotonic       *)
(* clock.                                                                  *)
(***************************************************************************)
EXTENDS Integers, Sequences, FiniteSets, TLC

VARIABLES
    now,          \* the clock, in seconds
    today,        \* date.today() as <<y, m, d>>
    padYear,      \* whether the platform's strftime("%Y") zero-pads to 4 digits
    lastRequest,  \* ArxivClient._last_request: <<>> is None, <<t>> a timestamp
    locked,       \* asyncio.Lock._locked
    waiters,      \* asyncio.Lock._waiters: the tasks whose future is queued
    fut,          \* per task, its lock future: "none", "pending", "woken", "cancelled"
    pc,           \* per task, where it is suspended
    wakeAt,       \* per task, when its asyncio.sleep() is due
    cancelReq,    \* per task, whether a CancelledError is to be delivered
    call,         \* per task, the tool invoked and its arguments
    outcome,      \* per task, what the tool invocation returned or raised
    ccall,        \* per task, the ArxivClient method the tool awaits, its arguments
    request,      \* per task, the parameters of the query GET it sent
    response,     \* per task, what upstream answered to its query GET
    hist,         \* per task, its gate admissions and HTTP requests, in order
    admitTimes,   \* the times of the two latest gate admissions
    queryTimes,   \* the times of the two latest query GETs
    dfIn,         \* arguments of a direct parse_date_filter call
    dfOut,        \* its result, <<filter, error>>; <<>> before the call
    arrivals,     \* the tasks inside the gate, in the order they entered it
    peIn,         \* the feed entry of a direct _parse_entry call
    peOut,        \* the paper record it returned; <<>> before the call
    fsIn,         \* arguments of a direct get_first_sentence call
    fsOut         \* the string it returned; NONE before the call

vars == <<now, today, padYear, lastRequest, locked, waiters, fut, pc, wakeAt,
          cancelReq, call, ccall, outcome, request, response, hist, admitTimes,
          queryTimes, dfIn, dfOut, arrivals, peIn, peOut, fsIn, fsOut>>

\* arguments and results of _parse_entry and get_first_sentence called on
\* their own
funcVars == <<peIn, peOut, fsIn, fsOut>>

-----------------------------------------------------------------------------
(* Bounds of the model *)

NumTasks == 2
MaxTime == 4

Tasks == 1..NumTasks

-----------------------------------------------------------------------------
(* Strings *)

NONE == <<"None">>

Digits == <<"0","1","2","3","4","5","6","7","8","9">>

IsDigit(c) == \E i \in 1..10 : Digits[i] = c

DigitVal(c) == (CHOOSE i \in 1..10 : Digits[i] = c) - 1

\* int(s) for a string of digits
RECURSIVE DigitsVal(_)
DigitsVal(s) ==
    IF s = <<>> THEN 0
    ELSE 10 * DigitsVal(SubSeq(s, 1, Len(s) - 1)) + DigitVal(s[Len(s)])

\* "%d" % n for n >= 0
RECURSIVE Decimal(_)
Decimal(n) ==
    IF n < 10 THEN <<Digits[n + 1]>>
    ELSE Decimal(n \div 10) \o <<Digits[(n % 10) + 1]>>

\* "%0<w>d" % n for n >= 0
RECURSIVE ZeroPad(_, _)
ZeroPad(n, w) ==
    IF Len(Decimal(n)) >= w THEN Decimal(n)
    ELSE <<"0">> \o ZeroPad(n, w - 1)

\* Python's str > str on strings of digits: by code point, a proper prefix is less
RECURSIVE StrGreater(_, _)
StrGreater(a, b) ==
    IF a = <<>> THEN FALSE
    ELSE IF b = <<>> THEN TRUE
    ELSE IF a[1] # b[1] THEN DigitVal(a[1]) > DigitVal(b[1])
    ELSE StrGreater(Tail(a), Tail(b))

\* Python truthiness of an Optional[str]: None and "" are false
Truthy(s) == s # NONE /\ s # <<>>

-----------------------------------------------------------------------------
(* datetime.strptime(s, "%Y-%m-%d") and strftime("%Y%m%d") *)

IsLeap(y) == (y % 4 = 0 /\ y % 100 # 0) \/ y % 400 = 0

DaysInMonth(y, m) ==
    IF m = 2 THEN (IF IsLeap(y) THEN 29 ELSE 28)
    ELSE IF m \in {4, 6, 9, 11} THEN 30 ELSE 31

At(s, i) == IF i >= 1 /\ i <= Len(s) THEN s[i] ELSE "$"

\* the length of the match of the %m pattern 1[0-2]|0[1-9]|[1-9] at position i
\* that lets the following "-" match, 0 when there is none
MonthLen(s, i) ==
    IF /\ \/ At(s, i) = "1" /\ At(s, i + 1) \in {"0", "1", "2"}
          \/ At(s, i) = "0" /\ IsDigit(At(s, i + 1)) /\ At(s, i + 1) # "0"
       /\ At(s, i + 2) = "-"
    THEN 2
    ELSE IF IsDigit(At(s, i)) /\ At(s, i) # "0" /\ At(s, i + 1) = "-"
    THEN 1
    ELSE 0

\* the length of the first alternative of the %d pattern
\* 3[0-1]|[1-2]\d|0[1-9]|[1-9]| [1-9] matching at position i, 0 when none does
DayLen(s, i) ==
    IF At(s, i) = "3" /\ At(s, i + 1) \in {"0", "1"} THEN 2
    ELSE IF At(s, i) \in {"1", "2"} /\ IsDigit(At(s, i + 1)) THEN 2
    ELSE IF At(s, i) = "0" /\ IsDigit(At(s, i + 1)) /\ At(s, i + 1) # "0" THEN 2
    ELSE IF IsDigit(At(s, i)) /\ At(s, i) # "0" THEN 1
    ELSE IF At(s, i) = " " /\ IsDigit(At(s, i + 1)) /\ At(s, i + 1) # "0" THEN 2
    ELSE 0

\* the digits of a day field, its optional leading blank dropped
DayDigits(f) == IF f[1] = " " THEN Tail(f) ELSE f

BadDate == [ok |-> FALSE, y |-> 0, m |-> 0, d |-> 0]

\* datetime(y, m, d): the ValueError of a year 0 or a day the month lacks
CheckDate(y, m, d) ==
    IF y < 1 \/ d > DaysInMonth(y, m)
    THEN BadDate
    ELSE [ok |-> TRUE, y |-> y, m |-> m, d |-> d]

\* the day field, dl long, after a month field ml long; nothing may follow it
StrpDay(s, ml, dl) ==
    IF dl = 0 \/ 6 + ml + dl # Len(s)
    THEN BadDate
    ELSE CheckDate(DigitsVal(SubSeq(s, 1, 4)),
                   DigitsVal(SubSeq(s, 6, 5 + ml)),
                   DigitsVal(DayDigits(SubSeq(s, 7 + ml, 6 + ml + dl))))

\* the month field, ml long, at position 6
StrpMonth(s, ml) ==
    IF ml = 0 THEN BadDate ELSE StrpDay(s, ml, DayLen(s, 7 + ml))

\* strptime: [ok |-> TRUE, y, m, d], or BadDate for a ValueError
StrpTime(s) ==
    IF /\ \A i \in 1..4 : IsDigit(At(s, i))
       /\ At(s, 5) = "-"
    THEN StrpMonth(s, MonthLen(s, 6))
    ELSE BadDate

\* the platform's %Y: glibc prints the year unpadded, other C libraries (and
\* later CPython versions) pad it to four digits
FormatYear(y, pad) == IF pad THEN ZeroPad(y, 4) ELSE Decimal(y)

\* strftime("%Y%m%d")
StrfTime(y, m, d, pad) == FormatYear(y, pad) \o ZeroPad(m, 2) \o ZeroPad(d, 2)

-----------------------------------------------------------------------------
(* server.py: parse_date_filter *)

ARXIV_FLOOR == <<"1","9","9","1","0","8","0","1","0","0","0","0">>

DateFromFormatError(date_from) ==
    <<"I","n","v","a","l","i","d"," ","d","a","t","e","_","f","r","o","m"," ","f","o","r","m","a","t",":"," ","'">> \o date_from \o <<"'","."," ","E","x","p","e","c","t","e","d"," ","Y","Y","Y","Y","-","M","M","-","D","D",".">>

DateToFormatError(date_to) ==
    <<"I","n","v","a","l","i","d"," ","d","a","t","e","_","t","o"," ","f","o","r","m","a","t",":"," ","'">> \o date_to \o <<"'","."," ","E","x","p","e","c","t","e","d"," ","Y","Y","Y","Y","-","M","M","-","D","D",".">>

DateOrderError == <<"d","a","t","e","_","f","r","o","m"," ","c","a","n","n","o","t"," ","b","e"," ","a","f","t","e","r"," ","d","a","t","e","_","t","o",".">>

\* the "Validate date order" comparison of the two compact timestamps
DateOrderViolated(arxiv_date_from, arxiv_date_to) ==
    StrGreater(arxiv_date_from, arxiv_date_to)

\* the "Build arXiv filter string" f-string
FilterString(arxiv_date_from, arxiv_date_to) ==
    <<"s","u","b","m","i","t","t","e","d","D","a","t","e",":","[">> \o arxiv_date_from \o <<" ","T","O"," ">> \o arxiv_date_to \o <<"]">>

\* strptime(...).strftime("%Y%m%d") + suffix of a parsed date
Compact(p, suffix, pad) == StrfTime(p.y, p.m, p.d, pad) \o suffix

\* "Validate date order" and "Build arXiv filter string"
OrderedFilter(arxiv_date_from, arxiv_date_to) ==
    IF /\ Truthy(arxiv_date_from) /\ Truthy(arxiv_date_to)
       /\ DateOrderViolated(arxiv_date_from, arxiv_date_to)
    THEN <<<<>>, DateOrderError>>
    ELSE <<FilterString(arxiv_date_from, arxiv_date_to), NONE>>

\* defaults that put today in the place of a date_to that was given
WithDefaultsTodayAlways(from0, to0, tdy, pad) ==
    OrderedFilter(IF Truthy(from0) THEN from0 ELSE ARXIV_FLOOR,
                  StrfTime(tdy[1], tdy[2], tdy[3], pad) \o <<"2","3","5","9">>)

\* "Set defaults for open-ended ranges": from0 and to0 are the compact
\* timestamps of the dates given, NONE for a date not given
WithDefaults(from0, to0, tdy, pad) ==
    IF Truthy(from0) /\ ~Truthy(to0)
    THEN OrderedFilter(from0, StrfTime(tdy[1], tdy[2], tdy[3], pad) \o <<"2","3","5","9">>)
    ELSE IF Truthy(to0) /\ ~Truthy(from0)
    THEN OrderedFilter(ARXIV_FLOOR, to0)
    ELSE OrderedFilter(from0, to0)

\* a validation that looks at date_to before date_from
ParsedDatesToFirst(date_from, date_to, pf, pt, tdy, pad) ==
    IF Truthy(date_to) /\ ~pt.ok
    THEN <<<<>>, DateToFormatError(date_to)>>
    ELSE IF Truthy(date_from) /\ ~pf.ok
    THEN <<<<>>, DateFromFormatError(date_from)>>
    ELSE WithDefaults(IF Truthy(date_from) THEN Compact(pf, <<"0","0","0","0">>, pad) ELSE NONE,
                      IF Truthy(date_to) THEN Compact(pt, <<"2","3","5","9">>, pad) ELSE NONE,
                      tdy, pad)

\* "Validate and parse dates": pf and pt are the dates parsed, BadDate for a
\* date that is not given or does not parse
ParsedDates(date_from, date_to, pf, pt, tdy, pad) ==
    IF Truthy(date_from) /\ ~pf.ok
    THEN <<<<>>, DateFromFormatError(date_from)>>
    ELSE IF Truthy(date_to) /\ ~pt.ok
    THEN <<<<>>, DateToFormatError(date_to)>>
    ELSE WithDefaults(IF Truthy(date_from) THEN Compact(pf, <<"0","0","0","0">>, pad) ELSE NONE,
                      IF Truthy(date_to) THEN Compact(pt, <<"2","3","5","9">>, pad) ELSE NONE,
                      tdy, pad)

\* parse_date_filter(date_from, date_to) on the day tdy: <<filter, error>>
parse_date_filter(date_from, date_to, tdy, pad) ==
    IF ~Truthy(date_from) /\ ~Truthy(date_to)
    THEN <<<<>>, NONE>>
    ELSE ParsedDates(date_from, date_to,
                     IF Truthy(date_from) THEN StrpTime(date_from) ELSE BadDate,
                     IF Truthy(date_to) THEN StrpTime(date_to) ELSE BadDate,
                     tdy, pad)

-----------------------------------------------------------------------------
(* Inputs *)

\* the days the server may be running on
Todays == { <<2025, 6, 15>>, <<2026, 11, 3>> }

\* date arguments: absent, well-formed, malformed, out of the calendar,
\* before the year 1000, before the arXiv floor, in the future
DateArgs ==
    { NONE, <<>>, <<"2","0","2","4","-","0","1","-","0","1">>, <<"2","0","2","4","-","1","2","-","3","1">>, <<"2","0","2","4","-","1","-","5">>, <<"2","0","2","4","-","0","2","-","2","9">>,
      <<"0","1","-","0","1","-","2","0","2","4">>, <<"2","0","2","4","-","0","2","-","3","0">>, <<"2","0","2","3","-","0","2","-","2","9">>, <<"0","9","9","9","-","0","1","-","0","1">>, <<"1","0","0","0","-","0","1","-","0","1">>,
      <<"1","9","9","1","-","0","7","-","3","1">>, <<"2","0","9","9","-","0","1","-","0","1">> }

-----------------------------------------------------------------------------
(* arxiv_client.py: the enums and the request parameters *)

Min(a, b) == IF a < b THEN a ELSE b

SortBy_SUBMITTED_DATE == <<"s","u","b","m","i","t","t","e","d","D","a","t","e">>
SortBy_UPDATED_DATE == <<"l","a","s","t","U","p","d","a","t","e","d","D","a","t","e">>
SortBy_RELEVANCE == <<"r","e","l","e","v","a","n","c","e">>
SortOrder_DESCENDING == <<"d","e","s","c","e","n","d","i","n","g">>
SortOrder_ASCENDING == <<"a","s","c","e","n","d","i","n","g">>

\* the parameters of one GET; a key a request does not carry is NONE
NoParams ==
    [search_query |-> NONE, id_list |-> NONE, max_results |-> NONE,
     sortBy |-> NONE, sortOrder |-> NONE]

\* "Ensure max_results is within API limits" in ArxivClient.search
ClientMaxResults(max_results) == Min(max_results, 2000)

\* params of ArxivClient.search
SearchParams(query, max_results, sort_by, sort_order) ==
    [search_query |-> query, id_list |-> NONE,
     max_results |-> <<ClientMaxResults(max_results)>>,
     sortBy |-> sort_by, sortOrder |-> sort_order]

\* params of ArxivClient.get_paper
PaperParams(paper_id) ==
    [search_query |-> NONE, id_list |-> paper_id, max_results |-> <<1>>,
     sortBy |-> NONE, sortOrder |-> NONE]

-----------------------------------------------------------------------------
(* server.py: search_papers up to its call of arxiv_client.search *)

\* a tool that caps at the 100 its docstring names
ToolMaxResultsDocstring(max_results) == Min(max_results, 100)

\* the first statement of search_papers
ToolMaxResults(max_results) == Min(max_results, 10)

\* a mapping that sends "updated_date" to a name the API does not know
SortByMappingUpdatedDate(sort_by) ==
    IF sort_by = <<"s","u","b","m","i","t","t","e","d","_","d","a","t","e">> THEN SortBy_SUBMITTED_DATE
    ELSE IF sort_by = <<"u","p","d","a","t","e","d","_","d","a","t","e">> THEN <<"u","p","d","a","t","e","d","D","a","t","e">>
    ELSE IF sort_by = <<"r","e","l","e","v","a","n","c","e">> THEN SortBy_RELEVANCE
    ELSE NONE

\* sort_by_mapping: the enum value, NONE for a key it does not hold
sort_by_mapping(sort_by) ==
    IF sort_by = <<"s","u","b","m","i","t","t","e","d","_","d","a","t","e">> THEN SortBy_SUBMITTED_DATE
    ELSE IF sort_by = <<"u","p","d","a","t","e","d","_","d","a","t","e">> THEN SortBy_UPDATED_DATE
    ELSE IF sort_by = <<"r","e","l","e","v","a","n","c","e">> THEN SortBy_RELEVANCE
    ELSE NONE

\* sort_order_mapping
sort_order_mapping(sort_order) ==
    IF sort_order = <<"d","e","s","c","e","n","d","i","n","g">> THEN SortOrder_DESCENDING
    ELSE IF sort_order = <<"a","s","c","e","n","d","i","n","g">> THEN SortOrder_ASCENDING
    ELSE NONE

InvalidSortByError(sort_by) ==
    <<"I","n","v","a","l","i","d"," ","s","o","r","t","_","b","y"," ","v","a","l","u","e",":"," ","'">> \o sort_by
        \o <<"'","."," ","V","a","l","i","d"," ","o","p","t","i","o","n","s",":"," ","s","u","b","m","i","t","t","e","d","_","d","a","t","e",","," ","u","p","d","a","t","e","d","_","d","a","t","e",","," ","r","e","l","e","v","a","n","c","e">>

InvalidSortOrderError(sort_order) ==
    <<"I","n","v","a","l","i","d"," ","s","o","r","t","_","o","r","d","e","r"," ","v","a","l","u","e",":"," ","'">> \o sort_order
        \o <<"'","."," ","V","a","l","i","d"," ","o","p","t","i","o","n","s",":"," ","d","e","s","c","e","n","d","i","n","g",","," ","a","s","c","e","n","d","i","n","g">>

\* a composition that does not parenthesise the query
ComposeQueryNoParens(query, date_filter) ==
    IF date_filter # <<>>
    THEN query \o <<" ","A","N","D"," ">> \o date_filter
    ELSE query

\* "Combine query with date filter"
ComposeQuery(query, date_filter) ==
    IF date_filter # <<>>
    THEN <<"(">> \o query \o <<")"," ","A","N","D"," ">> \o date_filter
    ELSE query

\* the arguments of the ArxivClient method a tool awaits
NoClientCall ==
    [method |-> "none", query |-> NONE, max_results |-> 0, sort_by |-> NONE,
     sort_order |-> NONE, paper_id |-> NONE]

ClientSearch(query, max_results, sort_by, sort_order) ==
    [method |-> "search", query |-> query, max_results |-> max_results,
     sort_by |-> sort_by, sort_order |-> sort_order, paper_id |-> NONE]

ClientGetPaper(paper_id) ==
    [method |-> "get_paper", query |-> NONE, max_results |-> 0,
     sort_by |-> NONE, sort_order |-> NONE, paper_id |-> paper_id]

\* what a tool does before its first await: the string it returns at once,
\* or NONE and the client call it makes
ReturnEarly(text) == [error |-> text, ccall |-> NoClientCall]

CallClient(cc) == [error |-> NONE, ccall |-> cc]

\* search_papers from "Build date filter if provided" to the call of
\* arxiv_client.search, df being what parse_date_filter returned
SearchWithFilter(c, df) ==
    IF Truthy(df[2])
    THEN ReturnEarly(df[2])
    ELSE CallClient(ClientSearch(ComposeQuery(c.query, df[1]),
                                 ToolMaxResults(c.max_results),
                                 sort_by_mapping(c.sort_by),
                                 sort_order_mapping(c.sort_order)))

\* search_papers from its first line to the call of arxiv_client.search
SearchPapersPrepare(c, tdy, pad) ==
    IF sort_by_mapping(c.sort_by) = NONE
    THEN ReturnEarly(InvalidSortByError(c.sort_by))
    ELSE IF sort_order_mapping(c.sort_order) = NONE
    THEN ReturnEarly(InvalidSortOrderError(c.sort_order))
    ELSE SearchWithFilter(c, parse_date_filter(c.date_from, c.date_to, tdy, pad))

-----------------------------------------------------------------------------
(* Tool invocations, upstream responses, results *)

NoCall ==
    [tool |-> "none", query |-> NONE, max_results |-> 0, sort_by |-> NONE,
     sort_order |-> NONE, date_from |-> NONE, date_to |-> NONE,
     paper_id |-> NONE]

SearchPapersCall(query, max_results, sort_by, sort_order, date_from, date_to) ==
    [tool |-> "search_papers", query |-> query, max_results |-> max_results,
     sort_by |-> sort_by, sort_order |-> sort_order,
     date_from |-> date_from, date_to |-> date_to, paper_id |-> NONE]

\* a direct call of ArxivClient.search, its sort arguments already enum values
ClientSearchCall(query, max_results, sort_by, sort_order) ==
    [tool |-> "client_search", query |-> query, max_results |-> max_results,
     sort_by |-> sort_by, sort_order |-> sort_order,
     date_from |-> NONE, date_to |-> NONE, paper_id |-> NONE]

PaperCall(tool, paper_id) ==
    [tool |-> tool, query |-> NONE, max_results |-> 0, sort_by |-> NONE,
     sort_order |-> NONE, date_from |-> NONE, date_to |-> NONE,
     paper_id |-> paper_id]

SearchTools == {"search_papers", "client_search"}

\* the largest feed and the largest total an upstream response carries
MaxEntries == 2
MaxTotal == 2

\* What upstream answers to a query: a feed of n entries reporting total
\* matches (-1: no integer-parseable opensearch:totalResults), whose first
\* entry has or lacks a PDF link and a text/html link; an HTTP failure
\* (status, transport, timeout); a payload without an entries collection.
Responses ==
    [kind : {"feed"}, n : 0..MaxEntries, total : -1..MaxTotal,
     pdf : BOOLEAN, abs : BOOLEAN]
    \cup [kind : {"http_error", "invalid"}, n : {0}, total : {-1},
          pdf : {FALSE}, abs : {FALSE}]

\* no answer yet
NoResponse == [kind |-> "none", n |-> 0, total |-> -1, pdf |-> FALSE, abs |-> FALSE]

NoOutcome ==
    [kind |-> "none", text |-> NONE, papers |-> <<>>, total_results |-> 0,
     results_returned |-> 0]

Returned(text) ==
    [kind |-> "returned", text |-> text, papers |-> <<>>, total_results |-> 0,
     results_returned |-> 0]

Raised(text) ==
    [kind |-> "raised", text |-> text, papers |-> <<>>, total_results |-> 0,
     results_returned |-> 0]

Cancelled ==
    [kind |-> "cancelled", text |-> NONE, papers |-> <<>>, total_results |-> 0,
     results_returned |-> 0]

\* "papers = [self._parse_entry(entry) for entry in feed.entries]": a paper is
\* the position of its entry in the feed
Papers(r) == [i \in 1..r.n |-> i]

\* "Extract total results from OpenSearch metadata"
TotalResults(r) == IF r.total < 0 THEN 0 ELSE r.total

\* a search that reports no total when it returns no papers
SearchResultOfEmptyZero(r) ==
    [kind |-> "result", text |-> NONE, papers |-> Papers(r),
     total_results |-> IF r.n = 0 THEN 0
                       ELSE IF TotalResults(r) = 0 THEN Len(Papers(r))
                       ELSE TotalResults(r),
     results_returned |-> Len(Papers(r))]

\* the SearchResult ArxivClient.search builds from a feed
SearchResultOf(r) ==
    IF r.n = 0
    THEN [kind |-> "result", text |-> NONE, papers |-> <<>>,
          total_results |-> TotalResults(r), results_returned |-> 0]
    ELSE [kind |-> "result", text |-> NONE, papers |-> Papers(r),
          total_results |-> IF TotalResults(r) = 0 THEN Len(Papers(r))
                            ELSE TotalResults(r),
          results_returned |-> Len(Papers(r))]

\* the text search_papers makes of a SearchResult: the header line; the
\* numbered list of papers that follows it is left out
SearchPapersText(sr) ==
    IF sr.total_results = 0
    THEN <<"N","o"," ","p","a","p","e","r","s"," ","f","o","u","n","d"," ","m","a","t","c","h","i","n","g"," ","y","o","u","r"," ","q","u","e","r","y",".">>
    ELSE <<"F","o","u","n","d"," ">> \o Decimal(sr.total_results) \o <<" ","t","o","t","a","l"," ","r","e","s","u","l","t","s">>
         \o (IF sr.results_returned < sr.total_results
             THEN <<","," ","s","h","o","w","i","n","g"," ","f","i","r","s","t"," ">> \o Decimal(sr.results_returned)
             ELSE <<>>)
         \o <<".">>

\* a client that takes a failed request for an empty answer
UpstreamFailureSwallowed(r, c) ==
    IF r.kind = "invalid" THEN <<"I","n","v","a","l","i","d"," ","r","e","s","p","o","n","s","e"," ","f","r","o","m"," ","a","r","X","i","v"," ","A","P","I">>
    ELSE IF c.tool \notin SearchTools /\ r.n = 0 /\ r.kind = "feed"
    THEN <<"P","a","p","e","r"," ","n","o","t"," ","f","o","u","n","d",":"," ">> \o c.paper_id
    ELSE NONE

\* a get_paper that takes an empty feed for an answer
UpstreamFailureEmptyOk(r, c) ==
    IF r.kind = "http_error" THEN <<"a","r","X","i","v"," ","A","P","I"," ","H","T","T","P"," ","e","r","r","o","r",":"," ">>
    ELSE IF r.kind = "invalid" THEN <<"I","n","v","a","l","i","d"," ","r","e","s","p","o","n","s","e"," ","f","r","o","m"," ","a","r","X","i","v"," ","A","P","I">>
    ELSE NONE

\* what ArxivClient.search / get_paper raise for a response, NONE if nothing
UpstreamFailure(r, c) ==
    IF r.kind = "http_error" THEN <<"a","r","X","i","v"," ","A","P","I"," ","H","T","T","P"," ","e","r","r","o","r",":"," ">>
    ELSE IF r.kind = "invalid" THEN <<"I","n","v","a","l","i","d"," ","r","e","s","p","o","n","s","e"," ","f","r","o","m"," ","a","r","X","i","v"," ","A","P","I">>
    ELSE IF c.tool \notin SearchTools /\ r.n = 0
    THEN <<"P","a","p","e","r"," ","n","o","t"," ","f","o","u","n","d",":"," ">> \o c.paper_id
    ELSE NONE

\* a full-text path that takes every record to have a PDF link
HasPdfUrlAlways(r) == TRUE

\* "if not paper["pdf_url"]" is false: the first entry had a link of type
\* application/pdf
HasPdfUrl(r) == r.pdf

NoPdfText(paper_id) == <<"N","o"," ","P","D","F"," ","U","R","L"," ","f","o","u","n","d"," ","f","o","r"," ","p","a","p","e","r",":"," ">> \o paper_id

ConversionErrorText == <<"E","r","r","o","r"," ","w","h","i","l","e"," ","c","o","n","v","e","r","t","i","n","g"," ","p","a","p","e","r"," ","t","o"," ","M","a","r","k","d","o","w","n",":"," ">>

ConversionTimeoutText(paper_id) ==
    <<"T","i","m","e","o","u","t",":"," ","P","D","F"," ","c","o","n","v","e","r","s","i","o","n"," ","e","x","c","e","e","d","e","d"," ","6","0"," ","s","e","c","o","n","d","s"," ","f","o","r"," ","p","a","p","e","r"," ">> \o paper_id

\* the first code of a tool: search_papers validates; get_paper_data and
\* get_full_paper_text call get_paper at once
ToolDispatch(c, tdy, pad) ==
    IF c.tool = "search_papers" THEN SearchPapersPrepare(c, tdy, pad)
    ELSE IF c.tool = "client_search"
    THEN CallClient(ClientSearch(c.query, c.max_results, c.sort_by, c.sort_order))
    ELSE CallClient(ClientGetPaper(c.paper_id))

\* the params dictionary of the client method
ParamsOf(cc) ==
    IF cc.method = "search"
    THEN SearchParams(cc.query, cc.max_results, cc.sort_by, cc.sort_order)
    ELSE PaperParams(cc.paper_id)

\* the two latest of a sequence of times and one more
Latest(times, t) ==
    IF Len(times) < 2 THEN Append(times, t) ELSE <<times[2], t>>

-----------------------------------------------------------------------------
(* arxiv_client.py: _wait_for_rate_limit, with asyncio.Lock as CPython      *)
(* implements it                                                           *)

MIN_INTERVAL == 3
CONVERT_TIMEOUT == 60

\* a conversion given ten minutes
ConvertDeadlineTenMinutes(t) == t + 600

\* "asyncio.wait_for(..., timeout=60.0)" entered at time t: when it gives up
ConvertDeadline(t) == t + CONVERT_TIMEOUT

\* a lock that looks at _locked alone and not at the waiters woken before
LockFreeUnlocked == ~locked

\* a lock that takes a waiter woken and not yet run for one that is gone
LockFreeAllDone ==
    /\ ~locked
    /\ \A i \in 1..Len(waiters) : fut[waiters[i]] # "pending"

\* Lock.acquire takes the lock at once when it is free and no live waiter queues
LockFree ==
    /\ ~locked
    /\ \A i \in 1..Len(waiters) : fut[waiters[i]] = "cancelled"

\* Lock._wake_up_first on waiters w with futures f: the first waiter's future
\* gets its result unless it is done already
WakeUpFirst(w, f) ==
    IF w # <<>> /\ f[w[1]] = "pending"
    THEN [f EXCEPT ![w[1]] = "woken"]
    ELSE f

Remove(w, t) == SelectSeq(w, LAMBDA u : u # t)

\* a handler that lets the wake-up a cancelled waiter had received go lost
AcquireCancelledNoWake(w, f, lk) == f

\* Lock.acquire's "except CancelledError: if not self._locked:
\* self._wake_up_first()", the cancelled waiter removed: the futures after it
AcquireCancelled(w, f, lk) == IF ~lk THEN WakeUpFirst(w, f) ELSE f

\* task t stands in the order a of entering the gate from its first wait on
Arrive(a, t) == IF \E i \in 1..Len(a) : a[i] = t THEN a ELSE Append(a, t)

\* "if elapsed < timedelta(seconds=3)"
NeedsSleep(elapsed) == elapsed < MIN_INTERVAL

\* a gate that sleeps for the time elapsed and not for the rest of the interval
SleepForElapsed(elapsed) == elapsed

\* a gate that sleeps the whole interval whatever time has elapsed
SleepForInterval(elapsed) == MIN_INTERVAL

\* "await asyncio.sleep(3 - elapsed.total_seconds())"
SleepFor(elapsed) == MIN_INTERVAL - elapsed

\* "self._last_request = datetime.now()"
Stamp(t) == <<t>>

\* a client whose get_paper does not wait for the gate
GateFirstSearchOnly(cc) == cc.method = "search"

\* "await self._wait_for_rate_limit()" is the first statement of
\* ArxivClient.search and of ArxivClient.get_paper
GateFirst(cc) == TRUE

\* an exit that does not release the lock
ExitLockLeak(w, f) == [locked |-> TRUE, fut |-> f]

\* Leaving "async with self._lock": Lock.release clears _locked and wakes the
\* first waiter of w; the lock's state after it
ExitLock(w, f) == [locked |-> FALSE, fut |-> WakeUpFirst(w, f)]

\* "response = await client.get(self.base_url, params=params)" is reached:
\* task t, whose history is h, sends the query GET of its client call cc
SendQuery(t, cc, h) ==
    /\ request' = [request EXCEPT ![t] = ParamsOf(cc)]
    /\ hist' = [hist EXCEPT ![t] = Append(h, "query")]
    /\ queryTimes' = Latest(queryTimes, now)
    /\ pc' = [pc EXCEPT ![t] = "http"]

\* The end of the critical section and what follows it without an await:
\* the timestamp is recorded, the lock released, the query GET sent.
Admit(t, cc, w, f) ==
    /\ lastRequest' = Stamp(now)
    /\ admitTimes' = Latest(admitTimes, now)
    /\ locked' = ExitLock(w, f).locked
    /\ fut' = ExitLock(w, f).fut
    /\ waiters' = w
    /\ SendQuery(t, cc, Append(hist[t], "admit"))
    /\ wakeAt' = [wakeAt EXCEPT ![t] = 0]
    /\ arrivals' = Remove(arrivals, t)
    /\ UNCHANGED outcome

\* The critical section entered by task t holding the lock
Critical(t, cc, w, f) ==
    IF lastRequest # <<>> /\ NeedsSleep(now - lastRequest[1])
    THEN /\ locked' = TRUE
         /\ waiters' = w
         /\ fut' = f
         /\ pc' = [pc EXCEPT ![t] = "sleeping"]
         /\ wakeAt' = [wakeAt EXCEPT ![t] = now + SleepFor(now - lastRequest[1])]
         /\ arrivals' = Arrive(arrivals, t)
         /\ UNCHANGED <<lastRequest, outcome, request, hist, admitTimes, queryTimes>>
    ELSE Admit(t, cc, w, f)

\* "async with self._lock" entered by task t
Acquire(t, cc) ==
    IF LockFree
    THEN Critical(t, cc, waiters, fut)
    ELSE /\ waiters' = Append(waiters, t)
         /\ arrivals' = Arrive(arrivals, t)
         /\ fut' = [fut EXCEPT ![t] = "pending"]
         /\ pc' = [pc EXCEPT ![t] = "lockwait"]
         /\ UNCHANGED <<lastRequest, locked, wakeAt, outcome, request, hist,
                        admitTimes, queryTimes>>

-----------------------------------------------------------------------------
(* str.find, str.split, str.rstrip and slices, on strings as tuples         *)

\* s[k:]
Drop(s, k) == SubSeq(s, k + 1, Len(s))

\* s[:k] for k >= 0
Take(s, k) == SubSeq(s, 1, Min(k, Len(s)))

\* the 0-based positions at which p occurs in s
Occurrences(s, p) ==
    { i \in 0..(Len(s) - Len(p)) : SubSeq(s, i + 1, i + Len(p)) = p }

\* s.find(p): the lowest position, -1 when there is none
Find(s, p) ==
    IF Occurrences(s, p) = {} THEN -1
    ELSE CHOOSE i \in Occurrences(s, p) : \A j \in Occurrences(s, p) : i <= j

\* s.split(p)[0]
SplitFirst(s, p) == IF Find(s, p) = -1 THEN s ELSE Take(s, Find(s, p))

\* s.split(p)[-1]: the separators are found from the left, one after the other
RECURSIVE SplitLast(_, _)
SplitLast(s, p) ==
    IF Find(s, p) = -1 THEN s ELSE SplitLast(Drop(s, Find(s, p) + Len(p)), p)

Whitespace == {" ", "\n", "\t"}

\* s.rstrip()
RECURSIVE RStrip(_)
RStrip(s) ==
    IF s # <<>> /\ s[Len(s)] \in Whitespace THEN RStrip(Take(s, Len(s) - 1)) ELSE s

-----------------------------------------------------------------------------
(* arxiv_client.py: _get_html_url and _parse_entry                         *)

HtmlBase == <<"h","t","t","p","s",":","/","/","a","r","x","i","v",".","o","r","g","/","h","t","m","l","/">>

\* "base_id = arxiv_id.split('v')[0]"
BaseId(arxiv_id) == SplitFirst(arxiv_id, <<"v">>)

\* _get_html_url(arxiv_id)
GetHtmlUrl(arxiv_id) == HtmlBase \o BaseId(arxiv_id)

\* "paper_id = entry.get('id', '').split("/abs/")[-1].rstrip()"
PaperIdOf(id) == RStrip(SplitLast(id, <<"/","a","b","s","/">>))

\* "html_url = self._get_html_url(paper_id) if paper_id else None"
HtmlUrlOf(paper_id) == IF Truthy(paper_id) THEN GetHtmlUrl(paper_id) ELSE NONE

\* a removal of every occurrence of x in s
RemoveEvery(s, x) == SelectSeq(s, LAMBDA y : y # x)

\* list.remove(x) on a list s that holds x: the first occurrence goes
RemoveFirst(s, x) ==
    Take(s, Find(s, <<x>>)) \o Drop(s, Find(s, <<x>>) + 1)

\* "if primary_category and primary_category in categories:
\*      categories.remove(primary_category)"
CategoriesOf(primary, tags) ==
    IF Truthy(primary) /\ Find(tags, <<primary>>) # -1
    THEN RemoveFirst(tags, primary)
    ELSE tags

\* _parse_entry(entry): the fields of the record that the entry's id, its
\* primary category and its tags decide
parse_entry(entry) ==
    [ id               |-> PaperIdOf(entry.id),
      html_url         |-> HtmlUrlOf(PaperIdOf(entry.id)),
      primary_category |-> entry.primary,
      categories       |-> CategoriesOf(entry.primary, entry.tags) ]

-----------------------------------------------------------------------------
(* server.py: get_first_sentence                                           *)

SentenceEnds == << <<"."," ">>, <<"!"," ">>, <<"?"," ">> >>

\* "for end in ['. ', '! ', '? ']": the ends from the i-th on are looked for
\* in turn, and the first one found before max_len cuts the text after its
\* mark; <<>> as the result says that the loop ended without a return
RECURSIVE SentenceCut(_, _, _)
SentenceCut(text, max_len, i) ==
    IF i > Len(SentenceEnds) THEN <<>>
    ELSE IF Find(text, SentenceEnds[i]) # -1 /\ Find(text, SentenceEnds[i]) < max_len
    THEN <<Take(text, Find(text, SentenceEnds[i]) + 1)>>
    ELSE SentenceCut(text, max_len, i + 1)

\* "return text[:max_len].rstrip() + '...'"
Truncated(text, max_len) == RStrip(Take(text, max_len)) \o <<".",".",".">>

\* get_first_sentence(text, max_len), for max_len >= 0
get_first_sentence(text, max_len) ==
    IF SentenceCut(text, max_len, 1) # <<>> THEN SentenceCut(text, max_len, 1)[1]
    ELSE IF Len(text) > max_len THEN Truncated(text, max_len)
    ELSE text

-----------------------------------------------------------------------------
(* The steps of a tool invocation, one per stretch of code between awaits *)

Suspended == {"lockwait", "sleeping", "http", "pdf", "convert"}

Finish(t, o) ==
    /\ pc' = [pc EXCEPT ![t] = "done"]
    /\ outcome' = [outcome EXCEPT ![t] = o]

\* Task t runs the first code d of its tool: the early return, or the client
\* method, which enters the gate.
Begin(t, d) ==
    IF d.error # NONE
    THEN /\ Finish(t, Returned(d.error))
         /\ UNCHANGED <<lastRequest, locked, waiters, fut, wakeAt, ccall, request,
                        hist, admitTimes, queryTimes, arrivals>>
    ELSE /\ ccall' = [ccall EXCEPT ![t] = d.ccall]
         /\ IF GateFirst(d.ccall)
            THEN Acquire(t, d.ccall)
            ELSE /\ SendQuery(t, d.ccall, hist[t])
                 /\ UNCHANGED <<lastRequest, locked, waiters, fut, wakeAt,
                                outcome, admitTimes, arrivals>>

\* A tool is invoked with arguments c, within the time the model covers, and
\* runs to its first await
Start(t, c) ==
    /\ pc[t] = "idle"
    /\ now <= MaxTime
    /\ call' = [call EXCEPT ![t] = c]
    /\ Begin(t, ToolDispatch(c, today, padYear))
    /\ UNCHANGED <<now, today, padYear, cancelReq, dfIn, dfOut, funcVars, response>>

\* The waiter whose future got its result resumes in Lock.acquire, leaves
\* the queue and takes the lock.
LockResume(t) ==
    /\ pc[t] = "lockwait"
    /\ fut[t] = "woken"
    /\ ~cancelReq[t]
    /\ Critical(t, ccall[t], Remove(waiters, t), [fut EXCEPT ![t] = "none"])
    /\ UNCHANGED <<now, today, padYear, cancelReq, call, ccall, dfIn, dfOut, funcVars, response>>

\* asyncio.sleep returns, no sooner than asked; its timer is gone
Wake(t) ==
    /\ pc[t] = "sleeping"
    /\ now >= wakeAt[t]
    /\ ~cancelReq[t]
    /\ Admit(t, ccall[t], waiters, fut)
    /\ UNCHANGED <<now, today, padYear, cancelReq, call, ccall, dfIn, dfOut, funcVars, response>>

\* The answer to the query GET arrives and the call runs on: to its end, or
\* for get_full_paper_text with a PDF link to the PDF download, which is
\* sent without passing the gate.
HttpResponse(t, r) ==
    /\ pc[t] = "http"
    /\ ~cancelReq[t]
    /\ response' = [response EXCEPT ![t] = r]
    /\ LET c == call[t]
           failure == UpstreamFailure(r, c)
       IN  IF failure # NONE
           THEN Finish(t, Raised(failure)) /\ UNCHANGED hist
           ELSE IF c.tool = "client_search"
           THEN Finish(t, SearchResultOf(r)) /\ UNCHANGED hist
           ELSE IF c.tool = "search_papers"
           THEN /\ Finish(t, Returned(SearchPapersText(SearchResultOf(r))))
                /\ UNCHANGED hist
           ELSE IF c.tool = "get_paper_data"
           THEN /\ Finish(t, IF r.abs THEN Returned(<<"T","i","t","l","e",":"," ">>)
                             ELSE Raised(<<"T","y","p","e","E","r","r","o","r">>))
                /\ UNCHANGED hist
           ELSE IF ~HasPdfUrl(r)
           THEN /\ Finish(t, Returned(NoPdfText(c.paper_id)))
                /\ UNCHANGED hist
           ELSE /\ pc' = [pc EXCEPT ![t] = "pdf"]
                /\ hist' = [hist EXCEPT ![t] = Append(hist[t], "pdf")]
                /\ UNCHANGED outcome
    /\ UNCHANGED <<now, today, padYear, lastRequest, locked, waiters, fut, wakeAt,
                   cancelReq, call, ccall, request, admitTimes, queryTimes, dfIn, dfOut, funcVars, arrivals>>

\* The PDF download ends: the conversion starts under its timeout, or the
\* failure is returned as a string.
PdfResponse(t, ok) ==
    /\ pc[t] = "pdf"
    /\ ~cancelReq[t]
    /\ IF ok
       THEN /\ pc' = [pc EXCEPT ![t] = "convert"]
            /\ wakeAt' = [wakeAt EXCEPT ![t] = ConvertDeadline(now)]
            /\ UNCHANGED outcome
       ELSE Finish(t, Returned(ConversionErrorText)) /\ UNCHANGED wakeAt
    /\ UNCHANGED <<now, today, padYear, lastRequest, locked, waiters, fut,
                   cancelReq, call, ccall, request, hist, admitTimes, queryTimes,
                   dfIn, dfOut, funcVars, arrivals, response>>

\* The conversion ends in the executor: with the Markdown, or with an exception
ConvertDone(t, ok) ==
    /\ pc[t] = "convert"
    /\ ~cancelReq[t]
    /\ Finish(t, Returned(IF ok THEN <<"#"," ">> ELSE ConversionErrorText))
    /\ wakeAt' = [wakeAt EXCEPT ![t] = 0]
    /\ UNCHANGED <<now, today, padYear, lastRequest, locked, waiters, fut,
                   cancelReq, call, ccall, request, hist, admitTimes, queryTimes,
                   dfIn, dfOut, funcVars, arrivals, response>>

\* asyncio.wait_for gives up on the conversion
ConvertTimeout(t) ==
    /\ pc[t] = "convert"
    /\ ~cancelReq[t]
    /\ now >= wakeAt[t]
    /\ Finish(t, Returned(ConversionTimeoutText(call[t].paper_id)))
    /\ wakeAt' = [wakeAt EXCEPT ![t] = 0]
    /\ UNCHANGED <<now, today, padYear, lastRequest, locked, waiters, fut,
                   cancelReq, call, ccall, request, hist, admitTimes, queryTimes,
                   dfIn, dfOut, funcVars, arrivals, response>>

InGate == {"lockwait", "sleeping"}

\* The caller cancels an invocation that waits in the gate (a disconnect, a
\* timeout of its own): Task.cancel() cancels the future the task waits on
\* if it is still pending, and the task is scheduled to run.
Cancel(t) ==
    /\ pc[t] \in InGate
    /\ ~cancelReq[t]
    /\ cancelReq' = [cancelReq EXCEPT ![t] = TRUE]
    /\ fut' = IF pc[t] = "lockwait" /\ fut[t] = "pending"
              THEN [fut EXCEPT ![t] = "cancelled"]
              ELSE fut
    /\ UNCHANGED <<now, today, padYear, lastRequest, locked, waiters, pc, wakeAt,
                   call, ccall, outcome, request, hist, admitTimes, queryTimes,
                   dfIn, dfOut, funcVars, arrivals, response>>

\* The cancelled task runs: CancelledError is raised at its await and leaves
\* through Lock.acquire's handler or the "async with" exit.
CancelDeliver(t) ==
    /\ pc[t] \in InGate
    /\ cancelReq[t]
    /\ Finish(t, Cancelled)
    /\ cancelReq' = [cancelReq EXCEPT ![t] = FALSE]
    /\ IF pc[t] = "lockwait"
       THEN /\ waiters' = Remove(waiters, t)
            /\ fut' = AcquireCancelled(Remove(waiters, t),
                                        [fut EXCEPT ![t] = "none"], locked)
            /\ UNCHANGED locked
       ELSE /\ locked' = ExitLock(waiters, fut).locked
            /\ fut' = ExitLock(waiters, fut).fut
            /\ UNCHANGED waiters
    /\ wakeAt' = [wakeAt EXCEPT ![t] = 0]
    /\ arrivals' = Remove(arrivals, t)
    /\ UNCHANGED <<now, today, padYear, lastRequest, call, ccall, request, hist,
                   admitTimes, queryTimes, dfIn, dfOut, funcVars, response>>

\* The caller cancels an invocation past the gate: nothing there observes a
\* cancellation before it is delivered, and no handler catches it.
CancelLate(t) ==
    /\ pc[t] \in Suspended \ InGate
    /\ Finish(t, Cancelled)
    /\ wakeAt' = [wakeAt EXCEPT ![t] = 0]
    /\ UNCHANGED <<now, today, padYear, lastRequest, locked, waiters, fut,
                   cancelReq, call, ccall, request, hist, admitTimes, queryTimes,
                   dfIn, dfOut, funcVars, arrivals, response>>

\* The caller has its answer; the task's slot takes the next invocation.
Return(t) ==
    /\ pc[t] = "done"
    /\ pc' = [pc EXCEPT ![t] = "idle"]
    /\ call' = [call EXCEPT ![t] = NoCall]
    /\ ccall' = [ccall EXCEPT ![t] = NoClientCall]
    /\ outcome' = [outcome EXCEPT ![t] = NoOutcome]
    /\ request' = [request EXCEPT ![t] = NoParams]
    /\ response' = [response EXCEPT ![t] = NoResponse]
    /\ hist' = [hist EXCEPT ![t] = <<>>]
    /\ UNCHANGED <<now, today, padYear, lastRequest, locked, waiters, fut, wakeAt,
                   cancelReq, admitTimes, queryTimes, dfIn, dfOut, funcVars, arrivals>>

\* a second passes
Tick ==
    /\ now < MaxTime
    /\ now' = now + 1
    /\ UNCHANGED <<today, padYear, lastRequest, locked, waiters, fut, pc, wakeAt,
                   cancelReq, call, ccall, outcome, request, hist, admitTimes,
                   queryTimes, dfIn, dfOut, funcVars, arrivals, response>>

\* time passes until the next timer is due
Elapse ==
    /\ \E t \in Tasks : pc[t] \in {"sleeping", "convert"} /\ wakeAt[t] > now
    /\ now' = CHOOSE d \in { wakeAt[t] : t \in { u \in Tasks :
                                 pc[u] \in {"sleeping", "convert"} /\ wakeAt[u] > now } } :
                 \A t \in Tasks :
                     pc[t] \in {"sleeping", "convert"} /\ wakeAt[t] > now
                         => d <= wakeAt[t]
    /\ UNCHANGED <<today, padYear, lastRequest, locked, waiters, fut, pc, wakeAt,
                   cancelReq, call, ccall, outcome, request, hist, admitTimes,
                   queryTimes, dfIn, dfOut, funcVars, arrivals, response>>

\* parse_date_filter called on its own
ParseDateFilter ==
    /\ dfIn # <<>>
    /\ dfOut = <<>>
    /\ dfOut' = parse_date_filter(dfIn[1], dfIn[2], today, padYear)
    /\ UNCHANGED <<now, today, padYear, lastRequest, locked, waiters, fut, pc,
                   wakeAt, cancelReq, call, ccall, outcome, request, hist, admitTimes,
                   queryTimes, dfIn, response, funcVars, arrivals>>

-----------------------------------------------------------------------------
(* Specifications *)

InitClient ==
    /\ now = 0
    /\ lastRequest = <<>>
    /\ locked = FALSE
    /\ waiters = <<>>
    /\ fut = [t \in Tasks |-> "none"]
    /\ pc = [t \in Tasks |-> "idle"]
    /\ wakeAt = [t \in Tasks |-> 0]
    /\ cancelReq = [t \in Tasks |-> FALSE]
    /\ call = [t \in Tasks |-> NoCall]
    /\ ccall = [t \in Tasks |-> NoClientCall]
    /\ outcome = [t \in Tasks |-> NoOutcome]
    /\ request = [t \in Tasks |-> NoParams]
    /\ response = [t \in Tasks |-> NoResponse]
    /\ hist = [t \in Tasks |-> <<>>]
    /\ admitTimes = <<>>
    /\ queryTimes = <<>>
    /\ arrivals = <<>>

\* neither _parse_entry nor get_first_sentence is called on its own
InitFunc ==
    /\ peIn = <<>>
    /\ peOut = <<>>
    /\ fsIn = <<>>
    /\ fsOut = NONE

PaperId == <<"2","1","0","3",".","0","8","2","2","0">>

\* the invocations that run concurrently in Spec: a search, a search that
\* fails validation, a paper lookup
GateCalls ==
    { SearchPapersCall(<<"t","i",":","t","r","a","n","s","f","o","r","m","e","r">>, 2, <<"s","u","b","m","i","t","t","e","d","_","d","a","t","e">>, <<"d","e","s","c","e","n","d","i","n","g">>,
                       NONE, NONE),
      SearchPapersCall(<<"t","e","s","t">>, 10, <<"i","n","v","a","l","i","d">>, <<"d","e","s","c","e","n","d","i","n","g">>, NONE, NONE),
      PaperCall("get_paper_data", PaperId) }

\* what upstream answers in Spec: a feed of one entry with its links, an
\* empty feed, an HTTP failure
GateResponses ==
    { r \in Responses :
        /\ r.kind # "invalid"
        /\ r.kind = "feed" => r.total = r.n /\ r.abs /\ r.pdf /\ r.n <= 1 }

\* the invocations of Spec carry no dates: one day and one platform
Init ==
    /\ InitClient
    /\ today = <<2026, 11, 3>>
    /\ padYear = FALSE
    /\ dfIn = <<>>
    /\ dfOut = <<>>
    /\ InitFunc

Next ==
    \/ \E t \in Tasks : \E c \in GateCalls : Start(t, c)
    \/ \E t \in Tasks : LockResume(t)
    \/ \E t \in Tasks : Wake(t)
    \/ \E t \in Tasks : \E r \in GateResponses : HttpResponse(t, r)
    \/ \E t \in Tasks : Cancel(t)
    \/ \E t \in Tasks : CancelDeliver(t)
    \/ \E t \in Tasks : CancelLate(t)
    \/ \E t \in Tasks : Return(t)
    \/ Tick

\* concurrent invocations of search_papers and get_paper_data on one client
Spec == Init /\ [][Next]_vars

\* the invocations of the paper tools
PaperCalls ==
    { PaperCall("get_paper_data", PaperId),
      PaperCall("get_full_paper_text", PaperId) }

NextPaper ==
    \/ \E c \in PaperCalls : Start(1, c)
    \/ Wake(1)
    \/ \E r \in Responses : HttpResponse(1, r)
    \/ \E ok \in BOOLEAN : PdfResponse(1, ok)
    \/ \E ok \in BOOLEAN : ConvertDone(1, ok)
    \/ ConvertTimeout(1)
    \/ Cancel(1)
    \/ CancelDeliver(1)
    \/ CancelLate(1)
    \/ Return(1)
    \/ Tick
    \/ Elapse

\* one caller invoking get_paper_data and get_full_paper_text in turn
SpecPaper == Init /\ [][NextPaper]_vars

\* the same where timers run: time passes to the next timer due, and the
\* timeout of wait_for fires when due; the conversion itself may never end
SpecPaperFair ==
    SpecPaper /\ WF_vars(Elapse) /\ WF_vars(ConvertTimeout(1))

\* arguments of search_papers: one varied at a time, and every pair of dates
MaxResultsArgs == {-5, 0, 1, 2, 10, 11, 2000, 2001}

SortByArgs == {<<"s","u","b","m","i","t","t","e","d","_","d","a","t","e">>, <<"u","p","d","a","t","e","d","_","d","a","t","e">>, <<"r","e","l","e","v","a","n","c","e">>, <<"i","n","v","a","l","i","d">>, <<>>}

SortOrderArgs == {<<"d","e","s","c","e","n","d","i","n","g">>, <<"a","s","c","e","n","d","i","n","g">>, <<"i","n","v","a","l","i","d">>}

ToolCalls ==
    { SearchPapersCall(<<"t","i",":","t","r","a","n","s","f","o","r","m","e","r">>, m, <<"s","u","b","m","i","t","t","e","d","_","d","a","t","e">>, <<"d","e","s","c","e","n","d","i","n","g">>,
                       NONE, NONE) : m \in MaxResultsArgs }
    \cup { SearchPapersCall(<<"t","e","s","t">>, 10, sb, so, NONE, NONE) :
             sb \in SortByArgs, so \in SortOrderArgs }
    \cup { SearchPapersCall(q, 2, <<"s","u","b","m","i","t","t","e","d","_","d","a","t","e">>, <<"d","e","s","c","e","n","d","i","n","g">>, df, dt) :
             q \in {<<"t","i",":","t","r","a","n","s","f","o","r","m","e","r">>, <<>>}, df \in DateArgs, dt \in DateArgs }
    \cup { ClientSearchCall(<<"m","a","c","h","i","n","e"," ","l","e","a","r","n","i","n","g">>, m, sb, SortOrder_DESCENDING) :
             m \in MaxResultsArgs,
             sb \in {SortBy_SUBMITTED_DATE, SortBy_UPDATED_DATE, SortBy_RELEVANCE} }
    \cup { PaperCall("get_paper_data", PaperId) }

InitTool ==
    /\ InitClient
    /\ today \in Todays
    /\ padYear \in BOOLEAN
    /\ dfIn = <<>>
    /\ dfOut = <<>>
    /\ InitFunc

NextTool ==
    \/ \E c \in ToolCalls : Start(1, c)
    \/ \E r \in Responses : HttpResponse(1, r)

\* one search, through the tool or on the client, with any arguments, or one
\* paper lookup
SpecTool == InitTool /\ [][NextTool]_vars

InitDate ==
    /\ InitClient
    /\ today \in Todays
    /\ padYear \in BOOLEAN
    /\ dfIn \in DateArgs \X DateArgs
    /\ dfOut = <<>>
    /\ InitFunc

NextDate == ParseDateFilter

\* parse_date_filter on every pair of date arguments
SpecDate == InitDate /\ [][NextDate]_vars


\* _parse_entry called on its own
ParseEntry ==
    /\ peIn # <<>>
    /\ peOut = <<>>
    /\ peOut' = <<parse_entry(peIn[1])>>
    /\ UNCHANGED <<now, today, padYear, lastRequest, locked, waiters, fut, pc,
                   wakeAt, cancelReq, call, ccall, outcome, request, hist, admitTimes,
                   queryTimes, dfIn, dfOut, response, arrivals, peIn, fsIn, fsOut>>

\* get_first_sentence called on its own
FirstSentence ==
    /\ fsIn # <<>>
    /\ fsOut = NONE
    /\ fsOut' = get_first_sentence(fsIn[1], fsIn[2])
    /\ UNCHANGED <<now, today, padYear, lastRequest, locked, waiters, fut, pc,
                   wakeAt, cancelReq, call, ccall, outcome, request, hist, admitTimes,
                   queryTimes, dfIn, dfOut, response, arrivals, peIn, peOut, fsIn>>

MaxTags == 3

\* the terms upstream gives: two categories and an empty term
Terms == {<<"c","s",".","A","I">>, <<"c","s",".","L","G">>, <<>>}

RECURSIVE SeqsUpTo(_, _)
SeqsUpTo(S, n) ==
    IF n = 0 THEN {<<>>}
    ELSE SeqsUpTo(S, n - 1)
             \cup { Append(s, x) : s \in { u \in SeqsUpTo(S, n - 1) : Len(u) = n - 1 },
                                   x \in S }

\* the "id" of an entry: absent, new-style with and without a version,
\* old-style with and without a version, followed by white space
EntryIds ==
    { <<>>,
      <<"h","t","t","p",":","/","/","a","r","x","i","v",".","o","r","g","/","a","b","s","/","2","1","0","3",".","0","8","2","2","0","v","2">>,
      <<"h","t","t","p",":","/","/","a","r","x","i","v",".","o","r","g","/","a","b","s","/","2","1","0","3",".","0","8","2","2","0">>,
      <<"h","t","t","p",":","/","/","a","r","x","i","v",".","o","r","g","/","a","b","s","/","s","o","l","v","-","i","n","t","/","9","9","0","1","0","0","1","v","1">>,
      <<"h","t","t","p",":","/","/","a","r","x","i","v",".","o","r","g","/","a","b","s","/","h","e","p","-","t","h","/","9","9","0","1","0","0","1">>,
      <<"h","t","t","p",":","/","/","a","r","x","i","v",".","o","r","g","/","a","b","s","/","2","1","0","3",".","0","8","2","2","0","v","1","2"," ">> }

\* feed entries: an id, the term of arxiv_primary_category or NONE without
\* one, the terms of the tags in feed order
Entries ==
    { [id |-> i, primary |-> p, tags |-> g] :
        i \in EntryIds, p \in Terms \cup {NONE}, g \in SeqsUpTo(Terms, MaxTags) }

InitEntry ==
    /\ InitClient
    /\ today = <<2026, 11, 3>>
    /\ padYear = FALSE
    /\ dfIn = <<>>
    /\ dfOut = <<>>
    /\ peIn \in { <<e>> : e \in Entries }
    /\ peOut = <<>>
    /\ fsIn = <<>>
    /\ fsOut = NONE

NextEntry == ParseEntry

\* _parse_entry on every entry
SpecEntry == InitEntry /\ [][NextEntry]_vars

MaxText == 4

TextChars == {"a", ".", "!", " "}

InitSentence ==
    /\ InitClient
    /\ today = <<2026, 11, 3>>
    /\ padYear = FALSE
    /\ dfIn = <<>>
    /\ dfOut = <<>>
    /\ peIn = <<>>
    /\ peOut = <<>>
    /\ fsIn \in SeqsUpTo(TextChars, MaxText) \X (0..MaxText)
    /\ fsOut = NONE

NextSentence == FirstSentence

\* get_first_sentence on every short text and limit
SpecSentence == InitSentence /\ [][NextSentence]_vars

\* the invocation of the fair gate: a paper lookup
FairCalls == { PaperCall("get_paper_data", PaperId) }

\* what upstream answers to it: an HTTP failure
FairResponses == { r \in GateResponses : r.kind = "http_error" }

NextFair ==
    \/ \E t \in Tasks : \E c \in FairCalls : Start(t, c)
    \/ \E t \in Tasks : LockResume(t)
    \/ \E t \in Tasks : Wake(t)
    \/ \E t \in Tasks : \E r \in FairResponses : HttpResponse(t, r)
    \/ \E t \in Tasks : Cancel(t)
    \/ \E t \in Tasks : CancelDeliver(t)
    \/ \E t \in Tasks : CancelLate(t)
    \/ \E t \in Tasks : Return(t)
    \/ Tick
    \/ Elapse

\* concurrent callers of the gate under the event loop's scheduling: a task
\* that is ready to run runs (a woken waiter, a cancelled task, a sleeper
\* whose timer is due) and time passes to the next timer; nothing makes a
\* caller arrive, an answer come or a caller cancel
SpecFair ==
    /\ Init
    /\ [][NextFair]_vars
    /\ \A t \in Tasks :
           WF_vars(LockResume(t)) /\ WF_vars(Wake(t)) /\ WF_vars(CancelDeliver(t))
    /\ WF_vars(Elapse)


-----------------------------------------------------------------------------
(* Properties of the rate gate *)

InSeq(s, x) == \E i \in 1..Len(s) : s[i] = x

\* C1: whatever the callers of the gate and their interleaving, two
\* consecutive admissions (the moments _last_request is recorded) are at
\* least 3 seconds apart; and while _last_request is absent no caller waits
\* in the gate, so that the first caller is admitted in the step it enters.
C1_AdmissionSpacing ==
    /\ Len(admitTimes) = 2 => admitTimes[2] - admitTimes[1] >= 3
    /\ lastRequest = <<>> =>
          /\ admitTimes = <<>>
          /\ ~locked
          /\ waiters = <<>>
          /\ \A t \in Tasks : pc[t] \notin InGate

\* two admissions exactly 3 seconds apart, the second after a sleep in the
\* gate, while another caller queues for the lock
C1_Witness ==
    /\ Len(admitTimes) = 2
    /\ admitTimes[2] - admitTimes[1] = 3
    /\ lastRequest = <<admitTimes[2]>>
    /\ \E t \in Tasks : pc[t] = "lockwait"

\* C2: at every moment at most one task is inside the gate's sequence of
\* reading the elapsed time, sleeping and recording the timestamp: the lock
\* is held exactly while one task sleeps in
\* it, every other caller in the gate is queued on the lock, and while the
\* lock is held _last_request is written by its holder alone, as it leaves.
C2_MutualExclusion ==
    /\ [](/\ \A t, u \in Tasks :
                pc[t] = "sleeping" /\ pc[u] = "sleeping" => t = u
          /\ locked <=> \E t \in Tasks : pc[t] = "sleeping"
          /\ \A t \in Tasks : pc[t] = "lockwait" <=> InSeq(waiters, t))
    /\ [][locked /\ lastRequest' # lastRequest =>
             \E t \in Tasks : /\ pc[t] = "sleeping"
                              /\ pc'[t] = "http"
                              /\ ~locked']_vars

\* one caller sleeps inside the gate while a second, arrived since, is kept
\* waiting for the lock
C2_Witness ==
    \E t, u \in Tasks :
        /\ pc[t] = "sleeping"
        /\ pc[u] = "lockwait"
        /\ fut[u] = "pending"
        /\ locked

\* C3: under any interleaving of search and get_paper calls on one client,
\* the query GETs of any two calls are sent at least 3 seconds apart.
C3_QuerySpacing ==
    Len(queryTimes) = 2 => queryTimes[2] - queryTimes[1] >= 3

\* a search and a get_paper in flight together, their query GETs sent
\* exactly 3 seconds apart
C3_Witness ==
    /\ Len(queryTimes) = 2
    /\ queryTimes[2] - queryTimes[1] = 3
    /\ \E t, u \in Tasks :
          /\ ccall[t].method = "search" /\ pc[t] = "http"
          /\ ccall[u].method = "get_paper" /\ pc[u] = "http"

\* C4: every HTTP GET a call sends, the query and the PDF download, comes
\* right after a gate admission of that same call.
C4_EveryRequestGated ==
    \A t \in Tasks : \A i \in 1..Len(hist[t]) :
        hist[t][i] \in {"query", "pdf"} => i > 1 /\ hist[t][i - 1] = "admit"

\* C5: a caller that is cancelled while it waits for the lock or sleeps in
\* the gate leaves _last_request and the record of admissions as they were,
\* is no longer queued, and does not keep the lock: the lock is then held
\* only if another caller sleeps in the gate; _last_request stays the time
\* of the last admission.
C5_AbandonLeavesGate ==
    [][\A t \in Tasks :
          pc[t] \in InGate /\ cancelReq[t] /\ pc'[t] = "done" =>
              /\ lastRequest' = lastRequest
              /\ admitTimes' = admitTimes
              /\ ~InSeq(waiters', t)
              /\ locked' => \E u \in Tasks \ {t} : pc'[u] = "sleeping"
              /\ lastRequest' # <<>> =>
                    /\ admitTimes' # <<>>
                    /\ lastRequest' = <<admitTimes'[Len(admitTimes')]>>]_vars

\* a caller was cancelled in the gate before its admission; a caller admitted
\* after it was spaced 3 seconds from the admission before, and the lock is
\* free
C5_Witness ==
    \E t, u \in Tasks :
        /\ pc[t] = "done"
        /\ outcome[t] = Cancelled
        /\ hist[t] = <<>>
        /\ pc[u] = "http"
        /\ Len(admitTimes) = 2
        /\ admitTimes[2] - admitTimes[1] = 3
        /\ lastRequest = <<admitTimes[2]>>
        /\ ~locked

-----------------------------------------------------------------------------
(* Properties of search_papers and ArxivClient.search *)

\* whether date p is later in the calendar than date q
DateAfter(p, q) ==
    \/ p.y > q.y
    \/ p.y = q.y /\ p.m > q.m
    \/ p.y = q.y /\ p.m = q.m /\ p.d > q.d

\* YYYYMMDD of a date
YYYYMMDD(p) == ZeroPad(p.y, 4) \o ZeroPad(p.m, 2) \o ZeroPad(p.d, 2)

\* C6: search_papers called with a sort_by or a sort_order that is not one
\* of the options, with a date that is not a YYYY-MM-DD date, or with a
\* date_from later than date_to, returns a string, sends no request and
\* leaves _last_request alone.
C6_InvalidArgumentsRejected ==
    LET c == call[1]
    IN  /\ c.tool = "search_papers"
        /\ \/ c.sort_by \notin {<<"s","u","b","m","i","t","t","e","d","_","d","a","t","e">>, <<"u","p","d","a","t","e","d","_","d","a","t","e">>, <<"r","e","l","e","v","a","n","c","e">>}
           \/ c.sort_order \notin {<<"d","e","s","c","e","n","d","i","n","g">>, <<"a","s","c","e","n","d","i","n","g">>}
           \/ Truthy(c.date_from) /\ ~StrpTime(c.date_from).ok
           \/ Truthy(c.date_to) /\ ~StrpTime(c.date_to).ok
           \/ /\ Truthy(c.date_from) /\ StrpTime(c.date_from).ok
              /\ Truthy(c.date_to) /\ StrpTime(c.date_to).ok
              /\ DateAfter(StrpTime(c.date_from), StrpTime(c.date_to))
        => /\ pc[1] = "done"
           /\ outcome[1].kind = "returned"
           /\ Truthy(outcome[1].text)
           /\ hist[1] = <<>>
           /\ request[1] = NoParams
           /\ lastRequest = <<>>

\* C7: whatever integer a search is called with, the max_results its query
\* GET carries lies in 1..2000.
C7_MaxResultsInRange ==
    call[1].tool \in SearchTools /\ request[1] # NoParams =>
        /\ request[1].max_results[1] >= 1
        /\ request[1].max_results[1] <= 2000

C9_ComposedQuery ==
    call[1].tool = "search_papers" /\ request[1] # NoParams =>
        /\ LET df == parse_date_filter(call[1].date_from, call[1].date_to,
                                       today, padYear)[1]
           IN  request[1].search_query =
                   IF df = <<>> THEN call[1].query
                   ELSE <<"(">> \o call[1].query \o <<")"," ","A","N","D"," ">> \o df
        /\ /\ call[1].query = <<"t","i",":","t","r","a","n","s","f","o","r","m","e","r">>
           /\ call[1].date_from = <<"2","0","2","4","-","0","1","-","0","1">>
           /\ ~Truthy(call[1].date_to)
           => request[1].search_query =
                  <<"(","t","i",":","t","r","a","n","s","f","o","r","m","e","r",")"," ","A","N","D"," ","s","u","b","m","i","t","t","e","d","D","a","t","e",":","[","2","0","2","4","0","1","0","1","0","0","0","0"," ","T","O"," ">>
                  \o (IF today = <<2026, 11, 3>> THEN <<"2","0","2","6","1","1","0","3">> ELSE <<"2","0","2","5","0","6","1","5">>)
                  \o <<"2","3","5","9","]">>

\* the request of the example has been sent
C9_Witness ==
    /\ call[1].tool = "search_papers"
    /\ call[1].query = <<"t","i",":","t","r","a","n","s","f","o","r","m","e","r">>
    /\ call[1].date_from = <<"2","0","2","4","-","0","1","-","0","1">>
    /\ call[1].date_to = NONE
    /\ today = <<2026, 11, 3>>
    /\ request[1].search_query =
           <<"(","t","i",":","t","r","a","n","s","f","o","r","m","e","r",")"," ","A","N","D"," ","s","u","b","m","i","t","t","e","d","D","a","t","e",":","[","2","0","2","4","0","1","0","1","0","0","0","0"," ","T","O"," ","2","0","2","6","1","1","0","3","2","3","5","9","]">>

-----------------------------------------------------------------------------
(* Properties of parse_date_filter *)

\* C10: parse_date_filter returns ('', None) when both dates are absent; for
\* two valid dates, date_from not after date_to, it returns the filter
\* submittedDate:[<from as YYYYMMDD>0000 TO <to as YYYYMMDD>2359] and no
\* error; and never both a filter and an error.
C10_DateFilterResult ==
    dfOut # <<>> =>
        LET date_from == dfIn[1]
            date_to == dfIn[2]
        IN  /\ ~Truthy(date_from) /\ ~Truthy(date_to) => dfOut = <<<<>>, NONE>>
            /\ /\ Truthy(date_from) /\ StrpTime(date_from).ok
               /\ Truthy(date_to) /\ StrpTime(date_to).ok
               /\ ~DateAfter(StrpTime(date_from), StrpTime(date_to))
               => dfOut = << <<"s","u","b","m","i","t","t","e","d","D","a","t","e",":","[">>
                                 \o YYYYMMDD(StrpTime(date_from)) \o <<"0","0","0","0"," ","T","O"," ">>
                                 \o YYYYMMDD(StrpTime(date_to)) \o <<"2","3","5","9","]">>,
                             NONE >>
            /\ ~(Truthy(dfOut[1]) /\ Truthy(dfOut[2]))

\* C11: in a filter parse_date_filter returns, the lower bound is the
\* date_from given, at 0000, and the floor 199108010000 when none is given;
\* the upper bound is the date_to given, at 2359, and today at 2359 when none
\* is given: a bound that was given is never replaced by a default.
C11_OpenEndedDefaults ==
    dfOut # <<>> /\ dfOut[1] # <<>> =>
        LET date_from == dfIn[1]
            date_to == dfIn[2]
            lower == IF Truthy(date_from)
                     THEN Compact(StrpTime(date_from), <<"0","0","0","0">>, padYear)
                     ELSE <<"1","9","9","1","0","8","0","1","0","0","0","0">>
            upper == IF Truthy(date_to)
                     THEN Compact(StrpTime(date_to), <<"2","3","5","9">>, padYear)
                     ELSE (IF today = <<2026, 11, 3>> THEN <<"2","0","2","6","1","1","0","3">>
                           ELSE <<"2","0","2","5","0","6","1","5">>) \o <<"2","3","5","9">>
        IN  dfOut = << <<"s","u","b","m","i","t","t","e","d","D","a","t","e",":","[">> \o lower \o <<" ","T","O"," ">> \o upper \o <<"]">>,
                       NONE >>

\* only date_to was given: the range starts at the floor and ends at date_to
C11_Witness ==
    /\ dfIn = <<NONE, <<"2","0","2","4","-","1","2","-","3","1">>>>
    /\ dfOut = <<<<"s","u","b","m","i","t","t","e","d","D","a","t","e",":","[","1","9","9","1","0","8","0","1","0","0","0","0"," ","T","O"," ","2","0","2","4","1","2","3","1","2","3","5","9","]">>, NONE>>

\* C12: for every pair of dates that parse, a date not given resolved to its
\* default, parse_date_filter returns the ordering error, and no filter,
\* exactly when the from-date is later in the calendar than the to-date;
\* equal days are accepted.
C12_OrderErrorIffLater ==
    dfOut # <<>> =>
        LET date_from == dfIn[1]
            date_to == dfIn[2]
            rf == IF Truthy(date_from) THEN StrpTime(date_from)
                  ELSE [ok |-> TRUE, y |-> 1991, m |-> 8, d |-> 1]
            rt == IF Truthy(date_to) THEN StrpTime(date_to)
                  ELSE [ok |-> TRUE, y |-> today[1], m |-> today[2],
                        d |-> today[3]]
        IN  (Truthy(date_from) \/ Truthy(date_to)) /\ rf.ok /\ rt.ok =>
                IF DateAfter(rf, rt)
                THEN dfOut = <<<<>>, <<"d","a","t","e","_","f","r","o","m"," ","c","a","n","n","o","t"," ","b","e"," ","a","f","t","e","r"," ","d","a","t","e","_","t","o",".">>>>
                ELSE dfOut[2] = NONE /\ dfOut[1] # <<>>

\* C13: a date that is given and does not parse makes parse_date_filter
\* return no filter and the message naming the field and the format
\* expected: the date_from message when date_from does not parse, whatever
\* date_to is; the date_to message when only date_to does not parse.
C13_FormatErrors ==
    dfOut # <<>> =>
        LET date_from == dfIn[1]
            date_to == dfIn[2]
            badFrom == Truthy(date_from) /\ ~StrpTime(date_from).ok
            badTo == Truthy(date_to) /\ ~StrpTime(date_to).ok
        IN  /\ badFrom =>
                dfOut = << <<>>, <<"I","n","v","a","l","i","d"," ","d","a","t","e","_","f","r","o","m"," ","f","o","r","m","a","t",":"," ","'">> \o date_from
                                \o <<"'","."," ","E","x","p","e","c","t","e","d"," ","Y","Y","Y","Y","-","M","M","-","D","D",".">> >>
            /\ ~badFrom /\ badTo =>
                dfOut = << <<>>, <<"I","n","v","a","l","i","d"," ","d","a","t","e","_","t","o"," ","f","o","r","m","a","t",":"," ","'">> \o date_to
                                \o <<"'","."," ","E","x","p","e","c","t","e","d"," ","Y","Y","Y","Y","-","M","M","-","D","D",".">> >>

\* both dates are malformed and the date_from message is the one returned
C13_Witness ==
    /\ dfIn = <<<<"0","1","-","0","1","-","2","0","2","4">>, <<"2","0","2","4","-","0","2","-","3","0">>>>
    /\ dfOut = << <<>>,
                  <<"I","n","v","a","l","i","d"," ","d","a","t","e","_","f","r","o","m"," ","f","o","r","m","a","t",":"," ","'","0","1","-","0","1","-","2","0","2","4","'","."," ","E","x","p","e","c","t","e","d"," ","Y","Y","Y","Y","-","M","M","-","D","D",".">> >>

-----------------------------------------------------------------------------
(* Properties of the results of ArxivClient.search and get_paper *)

\* C14: a search answered by a feed without entries returns a SearchResult
\* with no papers, results_returned 0 and the total upstream reported, 0
\* when it reported none; it raises nothing.
C14_EmptySearchResult ==
    /\ call[1].tool = "client_search"
    /\ pc[1] = "done"
    /\ response[1].kind = "feed"
    /\ response[1].n = 0
    => outcome[1] =
           [kind |-> "result", text |-> NONE, papers |-> <<>>,
            total_results |-> IF response[1].total < 0 THEN 0
                              ELSE response[1].total,
            results_returned |-> 0]

\* upstream reported 2 matches and sent no entry: the result carries the 2
C14_Witness ==
    /\ call[1].tool = "client_search"
    /\ response[1].kind = "feed"
    /\ response[1].n = 0
    /\ response[1].total = 2
    /\ outcome[1].kind = "result"
    /\ outcome[1].papers = <<>>
    /\ outcome[1].total_results = 2
    /\ outcome[1].results_returned = 0

\* C15: every SearchResult search returns has results_returned = len(papers)
\* and total_results >= 0; when upstream gave a total, results_returned <=
\* total_results; when it gave none that parses, total_results is 0 for an
\* empty result and results_returned otherwise.
C15_SearchResultInvariant ==
    call[1].tool = "client_search" /\ outcome[1].kind = "result" =>
        /\ outcome[1].results_returned = Len(outcome[1].papers)
        /\ outcome[1].total_results >= 0
        /\ IF response[1].total < 0
           THEN outcome[1].total_results =
                    IF outcome[1].papers = <<>> THEN 0
                    ELSE outcome[1].results_returned
           ELSE outcome[1].results_returned <= outcome[1].total_results

\* C16: get_paper asks for id_list = the id with max_results = 1; when the
\* feed that answers has no entries the call raises "Paper not found: <id>",
\* and the tool that called it raises it on.
C16_GetPaperNotFound ==
    call[1].tool \in {"get_paper_data", "get_full_paper_text"} =>
        /\ request[1] # NoParams =>
               request[1] = [search_query |-> NONE, id_list |-> call[1].paper_id,
                             max_results |-> <<1>>, sortBy |-> NONE,
                             sortOrder |-> NONE]
        /\ pc[1] = "done" /\ response[1].kind = "feed" /\ response[1].n = 0 =>
               /\ outcome[1].kind = "raised"
               /\ outcome[1].text = <<"P","a","p","e","r"," ","n","o","t"," ","f","o","u","n","d",":"," ">> \o call[1].paper_id

\* the lookup of 2103.08220 was answered by an empty feed and has raised
C16_Witness ==
    /\ call[1].tool = "get_paper_data"
    /\ request[1].id_list = <<"2","1","0","3",".","0","8","2","2","0">>
    /\ request[1].max_results = <<1>>
    /\ response[1].kind = "feed"
    /\ response[1].n = 0
    /\ outcome[1].kind = "raised"
    /\ outcome[1].text = <<"P","a","p","e","r"," ","n","o","t"," ","f","o","u","n","d",":"," ","2","1","0","3",".","0","8","2","2","0">>

\* C17: get_paper_text_from_pdf on a paper whose record has no pdf_url
\* returns the string "No PDF URL found for paper: <id>", raises nothing,
\* and has sent no PDF download and started no conversion.
C17_NoPdfUrl ==
    /\ call[1].tool = "get_full_paper_text"
    /\ pc[1] = "done"
    /\ response[1].kind = "feed"
    /\ response[1].n >= 1
    /\ ~response[1].pdf
    => /\ outcome[1].kind = "returned"
       /\ outcome[1].text = <<"N","o"," ","P","D","F"," ","U","R","L"," ","f","o","u","n","d"," ","f","o","r"," ","p","a","p","e","r",":"," ">> \o call[1].paper_id
       /\ hist[1] = <<"admit", "query">>
       /\ wakeAt[1] = 0

\* the record of 2103.08220 came without a PDF link and the string is returned
C17_Witness ==
    /\ call[1].tool = "get_full_paper_text"
    /\ pc[1] = "done"
    /\ response[1].n = 1
    /\ ~response[1].pdf
    /\ outcome[1].kind = "returned"
    /\ outcome[1].text = <<"N","o"," ","P","D","F"," ","U","R","L"," ","f","o","u","n","d"," ","f","o","r"," ","p","a","p","e","r",":"," ","2","1","0","3",".","0","8","2","2","0">>
    /\ hist[1] = <<"admit", "query">>

\* C18: every invocation of get_full_paper_text that is not cancelled ends
\* by returning a string, whichever step failed.
C18_FullTextAlwaysReturns ==
    /\ call[1].tool = "get_full_paper_text"
    /\ pc[1] = "done"
    /\ outcome[1] # Cancelled
    => /\ outcome[1].kind = "returned"
       /\ Truthy(outcome[1].text)

\* C19: a conversion that has started is given up 60 seconds later at the
\* latest, whether or not it ever ends: its deadline is set 60 seconds
\* ahead, time does not pass the deadline while it is pending, and it stops
\* being pending even when the conversion never finishes; leaving the
\* conversion, by the timeout string or otherwise, leaves _last_request as
\* it was and the lock free with nobody queued, so that the next caller of
\* the gate takes the lock at once.
C19_ConversionTimeout ==
    /\ [](pc[1] = "convert" => now <= wakeAt[1])
    /\ [][/\ pc[1] = "pdf" /\ pc'[1] = "convert" => wakeAt'[1] = now + 60
          /\ pc[1] = "convert" /\ pc'[1] # "convert" =>
                /\ now - (wakeAt[1] - 60) <= 60
                /\ lastRequest' = lastRequest
                /\ ~locked' /\ waiters' = <<>>
                /\ outcome'[1].kind \in {"returned", "cancelled"}
                /\ (now = wakeAt[1] /\ outcome'[1].kind = "returned") =>
                       outcome'[1].text \in
                           { <<"T","i","m","e","o","u","t",":"," ","P","D","F"," ","c","o","n","v","e","r","s","i","o","n"," ","e","x","c","e","e","d","e","d"," ","6","0"," ","s","e","c","o","n","d","s"," ","f","o","r"," ","p","a","p","e","r"," ">>
                                 \o call[1].paper_id,
                             <<"#"," ">>,
                             <<"E","r","r","o","r"," ","w","h","i","l","e"," ","c","o","n","v","e","r","t","i","n","g"," ","p","a","p","e","r"," ","t","o"," ","M","a","r","k","d","o","w","n",":"," ">> }]_vars
    /\ (pc[1] = "convert") ~> (pc[1] # "convert")

\* the conversion was given up at its deadline, 60 seconds or more after the
\* admission of the lookup, and the gate is as that admission left it
C19_Witness ==
    /\ call[1].tool = "get_full_paper_text"
    /\ pc[1] = "done"
    /\ outcome[1].kind = "returned"
    /\ outcome[1].text =
           <<"T","i","m","e","o","u","t",":"," ","P","D","F"," ","c","o","n","v","e","r","s","i","o","n"," ","e","x","c","e","e","d","e","d"," ","6","0"," ","s","e","c","o","n","d","s"," ","f","o","r"," ","p","a","p","e","r"," ","2","1","0","3",".","0","8","2","2","0">>
    /\ lastRequest # <<>>
    /\ now - lastRequest[1] >= 60
    /\ ~locked
    /\ waiters = <<>>

C22_PrimaryNotInCategories ==
    peOut # <<>> /\ Truthy(peOut[1].primary_category)
        => ~InSeq(peOut[1].categories, peOut[1].primary_category)

\* an id cut at a "v" that digits follow to its end
BaseIdTrailingVersion(arxiv_id) ==
    IF \E k \in 1..(Len(arxiv_id) - 1) :
           /\ arxiv_id[k] = "v"
           /\ \A j \in (k + 1)..Len(arxiv_id) : IsDigit(arxiv_id[j])
    THEN Take(arxiv_id, (CHOOSE k \in 1..(Len(arxiv_id) - 1) :
                             /\ arxiv_id[k] = "v"
                             /\ \A j \in (k + 1)..Len(arxiv_id) :
                                    IsDigit(arxiv_id[j])) - 1)
    ELSE arxiv_id

\* C23: in every paper record html_url is present exactly when id is not
\* empty, and is then "https://arxiv.org/html/" followed by the id less a
\* trailing version suffix "vN", an id without one being kept whole
C23_HtmlUrl ==
    peOut # <<>> =>
        /\ peOut[1].html_url # NONE <=> peOut[1].id # <<>>
        /\ peOut[1].id # <<>> =>
               peOut[1].html_url = HtmlBase \o BaseIdTrailingVersion(peOut[1].id)

\* C26: whatever the text and max_len, get_first_sentence returns a string
\* of at most max_len characters
C26_WithinMaxLen ==
    fsOut # NONE => Len(fsOut) <= fsIn[2]

\* C24: every search request sent upstream carries a sortBy that is one of
\* submittedDate, lastUpdatedDate, relevance and a sortOrder that is one of
\* ascending, descending, which for search_papers are the ones its sort_by
\* (submitted_date, updated_date, relevance) and sort_order name; with any
\* other sort_by or sort_order the tool returns the "Invalid sort_by value"
\* or the "Invalid sort_order value" string and no request is sent
C24_SortParameters ==
    \A t \in Tasks :
        LET c == call[t]
            q == request[t]
            byOk == c.sort_by \in {<<"s","u","b","m","i","t","t","e","d","_","d","a","t","e">>, <<"u","p","d","a","t","e","d","_","d","a","t","e">>, <<"r","e","l","e","v","a","n","c","e">>}
            orderOk == c.sort_order \in {<<"d","e","s","c","e","n","d","i","n","g">>, <<"a","s","c","e","n","d","i","n","g">>}
        IN  /\ q.search_query # NONE =>
                /\ q.sortBy \in {<<"s","u","b","m","i","t","t","e","d","D","a","t","e">>, <<"l","a","s","t","U","p","d","a","t","e","d","D","a","t","e">>, <<"r","e","l","e","v","a","n","c","e">>}
                /\ q.sortOrder \in {<<"a","s","c","e","n","d","i","n","g">>, <<"d","e","s","c","e","n","d","i","n","g">>}
            /\ c.tool = "search_papers" /\ q # NoParams =>
                /\ c.sort_by = <<"s","u","b","m","i","t","t","e","d","_","d","a","t","e">> => q.sortBy = <<"s","u","b","m","i","t","t","e","d","D","a","t","e">>
                /\ c.sort_by = <<"u","p","d","a","t","e","d","_","d","a","t","e">> => q.sortBy = <<"l","a","s","t","U","p","d","a","t","e","d","D","a","t","e">>
                /\ c.sort_by = <<"r","e","l","e","v","a","n","c","e">> => q.sortBy = <<"r","e","l","e","v","a","n","c","e">>
                /\ q.sortOrder = c.sort_order
            /\ c.tool = "search_papers" /\ ~byOk =>
                /\ pc[t] = "done"
                /\ outcome[t] = Returned(<<"I","n","v","a","l","i","d"," ","s","o","r","t","_","b","y"," ","v","a","l","u","e",":"," ","'">> \o c.sort_by
                       \o <<"'","."," ","V","a","l","i","d"," ","o","p","t","i","o","n","s",":"," ","s","u","b","m","i","t","t","e","d","_","d","a","t","e",","," ","u","p","d","a","t","e","d","_","d","a","t","e",","," ","r","e","l","e","v","a","n","c","e">>)
                /\ q = NoParams
                /\ hist[t] = <<>>
            /\ c.tool = "search_papers" /\ byOk /\ ~orderOk =>
                /\ pc[t] = "done"
                /\ outcome[t] = Returned(<<"I","n","v","a","l","i","d"," ","s","o","r","t","_","o","r","d","e","r"," ","v","a","l","u","e",":"," ","'">> \o c.sort_order
                       \o <<"'","."," ","V","a","l","i","d"," ","o","p","t","i","o","n","s",":"," ","d","e","s","c","e","n","d","i","n","g",","," ","a","s","c","e","n","d","i","n","g">>)
                /\ q = NoParams
                /\ hist[t] = <<>>

\* a search by update date, ascending, has been sent upstream
C24_Witness ==
    /\ call[1].tool = "search_papers"
    /\ call[1].sort_by = <<"u","p","d","a","t","e","d","_","d","a","t","e">>
    /\ call[1].sort_order = <<"a","s","c","e","n","d","i","n","g">>
    /\ request[1].sortBy = <<"l","a","s","t","U","p","d","a","t","e","d","D","a","t","e">>
    /\ request[1].sortOrder = <<"a","s","c","e","n","d","i","n","g">>
    /\ pc[1] = "http"

\* the position of task t in the order a
Position(a, t) == CHOOSE i \in 1..Len(a) : a[i] = t

\* task t is admitted in this step
AdmittedNow(t) == InSeq(hist'[t], "admit") /\ ~InSeq(hist[t], "admit")

\* C25: the gate admits its callers in the order in which they entered it:
\* when a caller is admitted, no caller that entered the gate before it and
\* is not cancelled is still waiting, and the timestamp recorded is the time
\* of the admission, not earlier than the one before
C25_AdmittedInOrder ==
    [][\A t \in Tasks :
           AdmittedNow(t) =>
               /\ \A u \in Tasks \ {t} :
                      InSeq(arrivals, u) /\ ~cancelReq[u]
                          => /\ InSeq(arrivals, t)
                             /\ Position(arrivals, t) < Position(arrivals, u)
               /\ lastRequest' = <<now>>
               /\ lastRequest # <<>> => lastRequest[1] <= now]_vars

\* a caller has been admitted at the end of its wait, ahead of one that
\* entered the gate after it and now sleeps under the lock for its own turn
C25_Witness ==
    \E t, u \in Tasks :
        /\ t # u
        /\ pc[t] = "http"
        /\ hist[t] = <<"admit", "query">>
        /\ pc[u] = "sleeping"
        /\ arrivals = <<u>>
        /\ fut[u] = "none"
        /\ lastRequest = <<now>>
        /\ wakeAt[u] = now + MIN_INTERVAL
        /\ Len(admitTimes) = 2
        /\ admitTimes[2] = admitTimes[1] + MIN_INTERVAL

\* C29: the lock is held only while its holder checks, sleeps and records,
\* never by a call whose request is in flight; the holder's sleep ends 3
\* seconds after the latest admission; a call entering the gate waits only
\* for a caller inside the gate or for that interval, whatever requests are
\* in flight; and the end of a request, however it ends, changes neither the
\* recorded timestamp nor the lock, its queue or the sleep of its holder
C29_RequestOutsideLock ==
    /\ [](/\ locked => \E u \in Tasks : pc[u] = "sleeping"
          /\ \A u \in Tasks :
                 pc[u] = "sleeping" =>
                     /\ lastRequest # <<>>
                     /\ wakeAt[u] = lastRequest[1] + MIN_INTERVAL)
    /\ [][\A t \in Tasks :
              /\ pc[t] = "idle" /\ pc'[t] \in InGate =>
                     \/ \E u \in Tasks \ {t} : pc[u] \in InGate
                     \/ lastRequest # <<>> /\ now < lastRequest[1] + MIN_INTERVAL
              /\ AdmittedNow(t) => ~locked' /\ pc'[t] = "http"
              /\ pc[t] = "http" /\ pc'[t] # "http" =>
                     /\ UNCHANGED <<lastRequest, admitTimes, locked, waiters, fut,
                                    arrivals>>
                     /\ \A u \in Tasks \ {t} :
                            pc'[u] = pc[u] /\ wakeAt'[u] = wakeAt[u]]_vars

\* two requests are in flight together, the second admitted 3 seconds after
\* the first while the first had no answer yet, and the lock is free
C29_Witness ==
    \E t, u \in Tasks :
        /\ t # u
        /\ pc[t] = "http" /\ response[t] = NoResponse
        /\ pc[u] = "http" /\ response[u] = NoResponse
        /\ ~locked
        /\ waiters = <<>>
        /\ Len(admitTimes) = 2
        /\ admitTimes[2] = admitTimes[1] + MIN_INTERVAL
        /\ lastRequest = <<admitTimes[2]>>

\* C27: get_paper_data returns a text for every record get_paper returns,
\* whichever of its links and categories the entry lacks, and raises only
\* what get_paper raised
C27_PaperDataAlwaysFormats ==
    /\ call[1].tool = "get_paper_data"
    /\ pc[1] = "done"
    /\ outcome[1].kind # "cancelled"
    => IF response[1].kind = "feed" /\ response[1].n >= 1
       THEN outcome[1].kind = "returned"
       ELSE outcome[1].kind = "raised"

\* C30: a range given on one side only is checked against the default of the
\* other side: search_papers with only a date_to earlier than 1991-08-01, or
\* with only a date_from later than today, returns "date_from cannot be
\* after date_to." and sends nothing upstream
C30_OneSidedRangeRejected ==
    LET c == call[1]
        floor == [y |-> 1991, m |-> 8, d |-> 1]
        tdy == [y |-> today[1], m |-> today[2], d |-> today[3]]
    IN  /\ c.tool = "search_papers"
        /\ \/ /\ ~Truthy(c.date_from)
              /\ Truthy(c.date_to)
              /\ StrpTime(c.date_to).ok
              /\ DateAfter(floor, StrpTime(c.date_to))
           \/ /\ ~Truthy(c.date_to)
              /\ Truthy(c.date_from)
              /\ StrpTime(c.date_from).ok
              /\ DateAfter(StrpTime(c.date_from), tdy)
        => /\ pc[1] = "done"
           /\ outcome[1] = Returned(<<"d","a","t","e","_","f","r","o","m"," ","c","a","n","n","o","t"," ","b","e"," ","a","f","t","e","r"," ","d","a","t","e","_","t","o",".">>)
           /\ hist[1] = <<>>
           /\ request[1] = NoParams

\* C28: under fair scheduling every caller inside the gate, waiting for the
\* lock or sleeping under it, is eventually admitted unless it is cancelled,
\* a caller queued behind a holder cancelled in its sleep included
C28_EventuallyAdmitted ==
    \A t \in Tasks :
        (pc[t] \in InGate) ~> (InSeq(hist[t], "admit") \/ cancelReq[t])

\* the holder of the lock has been cancelled in its sleep while a caller
\* that is not cancelled is queued behind it
C28_Witness ==
    \E t, u \in Tasks :
        /\ t # u
        /\ pc[t] = "sleeping"
        /\ cancelReq[t]
        /\ locked
        /\ pc[u] = "lockwait"
        /\ fut[u] = "pending"
        /\ ~cancelReq[u]
        /\ waiters = <<u>>
        /\ arrivals = <<t, u>>

=============================================================================
